---- MODULE Spec2Model ----
(***************************************************************************)
(* Frame lifecycle and synchronization core of the FNA3D Vulkan driver:    *)
(* the ring of VulkanFrameData slots, VULKAN_BeginFrame / VULKAN_EndFrame  *)
(* as driven by VULKAN_SwapBuffers, swapchain (re)creation, the disposal   *)
(* barrier and VULKAN_DestroyDevice.  The GPU is a concurrent actor that   *)
(* completes queue submissions; the driver itself is single-threaded and   *)
(* blocks in vkWaitForFences and vkDeviceWaitIdle.                         *)
(***************************************************************************)
EXTENDS Integers, Sequences, FiniteSets

(* ---- program constants ---- *)
VULKAN_MAX_FRAMES_IN_FLIGHT == 3

(* ---- bounds of the model ---- *)
\* number of swapchain objects the driver may create in one run
MaxChains == 2
\* number of images of every swapchain (swapchain.imageCount)
NumImages == 2

Slots == 0 .. (VULKAN_MAX_FRAMES_IN_FLIGHT - 1)
Images == 0 .. (NumImages - 1)
ChainIds == 1 .. MaxChains
VK_NULL_HANDLE == 0

\* VkResult values of vkAcquireNextImageKHR / vkQueuePresentKHR
VK_SUCCESS == "VK_SUCCESS"
VK_ERROR_OUT_OF_DATE_KHR == "VK_ERROR_OUT_OF_DATE_KHR"
VK_SUBOPTIMAL_KHR == "VK_SUBOPTIMAL_KHR"
SurfaceResults == {VK_SUCCESS, VK_ERROR_OUT_OF_DATE_KHR, VK_SUBOPTIMAL_KHR}

\* requested back buffer sizes (width, height) the host may pass
Sizes == {<<800, 600>>, <<1024, 768>>}

\* GPU-resident resources the host may create: textures and buffers
Textures == {"tex"}
VertexBuffers == {"vbuf"}
IndexBuffers == {"ibuf"}
Buffers == VertexBuffers \cup IndexBuffers
Resources == Textures \cup Buffers

VARIABLES
    pc,                 \* where the (single) driver thread is
    frames,             \* renderer->frames[i]: fence, imageAvailable, commandBuffer
                        \* state, submitted
    pendingWork,        \* per slot: queue submissions the GPU has not completed
    currentFrame,       \* renderer->currentFrame
    swapchain,          \* renderer->swapchain.swapchain (0 = VK_NULL_HANDLE)
    imageViews,         \* renderer->swapchain.imageViews: the chain whose views it holds
    currentImageIndex,  \* renderer->swapchain.currentImageIndex
    backbuffer,         \* <<renderer->backbufferWidth, renderer->backbufferHeight>>
    extent,             \* renderer->swapchain.extent
    liveSwapchains,     \* VkSwapchainKHR objects created and not destroyed
    liveViewSets,       \* chains whose image views are created and not destroyed
    acquired,           \* images of the current chain the application owns
    imagePresented,     \* currentImageIndex was presented since acquire last wrote it
    lastAcquire,        \* result of the last vkAcquireNextImageKHR
    lastPresent,        \* result of the last vkQueuePresentKHR
    resources,          \* each resource: "none", "live" or "released"
    textureList,        \* renderer->textureList
    bufferList,         \* renderer->bufferList
    disposing,          \* the resource the running AddDispose* call releases
    idleWaits,          \* vkDeviceWaitIdle calls made by the running call
    frameCount,         \* renderer->frameCount
    currentCommandBuffer, \* renderer->currentCommandBuffer: the slot it belongs to
    recorded,           \* slots whose command buffer got a command since its reset
    call,               \* the function called in isolation and its arguments
    ret,                \* what that call returned, after the name of the function
    ops                 \* the native calls it made, in order

vars == <<pc, frames, pendingWork, currentFrame, swapchain, imageViews,
          currentImageIndex, backbuffer, extent, liveSwapchains, liveViewSets,
          acquired, imagePresented, lastAcquire, lastPresent, resources,
          textureList, bufferList, disposing, idleWaits, frameCount,
          currentCommandBuffer, recorded, call, ret, ops>>

\* the state of the renderer and of the GPU
driverVars == <<pc, frames, pendingWork, currentFrame, swapchain, imageViews,
                currentImageIndex, backbuffer, extent, liveSwapchains, liveViewSets,
                acquired, imagePresented, lastAcquire, lastPresent, resources,
                textureList, bufferList, disposing, idleWaits, frameCount,
                currentCommandBuffer, recorded>>

\* the record of a function called in isolation (one call in a run)
callVars == <<call, ret, ops>>

NoCall == <<"none">>

swapVars == <<swapchain, imageViews, extent, liveSwapchains, liveViewSets>>
resVars == <<resources, textureList, bufferList, disposing, idleWaits>>

NoResource == "NULL"

\* the frame counter and the recording context handed to the state setters
recVars == <<frameCount, currentCommandBuffer, recorded>>

\* renderer->currentCommandBuffer before the first successful BeginFrame
NoCommandBuffer == -1

Init ==
    /\ pc = "none"
    /\ frames = [i \in Slots |->
                    [fence |-> FALSE, imageAvailable |-> FALSE, commandBuffer |-> "initial",
                     submitted |-> FALSE]]
    /\ pendingWork = [i \in Slots |-> 0]
    /\ currentFrame = 0
    /\ swapchain = VK_NULL_HANDLE
    /\ imageViews = VK_NULL_HANDLE
    /\ currentImageIndex = 0
    /\ backbuffer = <<0, 0>>
    /\ extent = <<0, 0>>
    /\ liveSwapchains = {}
    /\ liveViewSets = {}
    /\ acquired = {}
    /\ imagePresented = FALSE
    /\ lastAcquire = "none"
    /\ lastPresent = "none"
    /\ resources = [r \in Resources |-> "none"]
    /\ textureList = <<>>
    /\ bufferList = <<>>
    /\ disposing = NoResource
    /\ idleWaits = 0
    /\ frameCount = 0
    /\ currentCommandBuffer = NoCommandBuffer
    /\ recorded = {}
    /\ call = NoCall
    /\ ret = NoCall
    /\ ops = <<>>

(* ---- helpers ---- *)

\* a faulty stale test that forgets VK_SUBOPTIMAL_KHR (C7 must notice it)
IsStaleOutOfDateOnly(result) ==
    result = VK_ERROR_OUT_OF_DATE_KHR

\* the test of BeginFrame and EndFrame on the VkResult of acquire / present
IsStale(result) ==
    result = VK_ERROR_OUT_OF_DATE_KHR \/ result = VK_SUBOPTIMAL_KHR

\* a faulty idle wait that returns at once (C3 must notice it)
DeviceIdleNoWait == TRUE

\* vkDeviceWaitIdle returns: no queue submission is still executing
DeviceIdle == \A i \in Slots : pendingWork[i] = 0

\* (currentFrame + 1) % VULKAN_MAX_FRAMES_IN_FLIGHT
NextFrame(c) == (c + 1) % VULKAN_MAX_FRAMES_IN_FLIGHT

\* VULKAN_CreateSwapchain(renderer, w, h): a new chain with the old one as
\* hint, its images and one view per image; the handle and the view array
\* are overwritten, nothing of the outgoing chain is destroyed.
CreateSwapchain(size) ==
    LET new == swapchain + 1 IN
    /\ swapchain' = new
    /\ imageViews' = new
    /\ extent' = size
    /\ liveSwapchains' = liveSwapchains \cup {new}
    /\ liveViewSets' = liveViewSets \cup {new}

\* the chain id bound leaves room for one more creation
CanCreateChain == swapchain < MaxChains

(* ---- operations ---- *)

\* VULKAN_CreateDevice, successful path: swapchain, then frame resources
\* (fences created signaled), currentFrame = 0 from the memset.
CreateDevice(size) ==
    /\ pc = "none"
    /\ backbuffer' = size
    /\ CreateSwapchain(size)
    /\ frames' = [i \in Slots |->
                    [fence |-> TRUE, imageAvailable |-> FALSE, commandBuffer |-> "initial",
                     submitted |-> FALSE]]
    /\ pc' = "idle"
    /\ UNCHANGED <<pendingWork, currentFrame, currentImageIndex, acquired,
                   imagePresented, lastAcquire, lastPresent>>
    /\ UNCHANGED resVars
    /\ UNCHANGED recVars
    /\ UNCHANGED callVars

\* VULKAN_EndFrame, the first half of VULKAN_SwapBuffers: end the command
\* buffer, submit it with the slot's fence, present, recreate the swapchain
\* on a stale present, advance the ring.  presentResult is what
\* vkQueuePresentKHR returns; fenceKept is what the driver does with a fence
\* that is still signaled when it is handed to vkQueueSubmit (invalid usage:
\* it either stays signaled or is taken as unsignaled).
EndFrame(presentResult, fenceKept) ==
    LET frame == frames[currentFrame] IN
    /\ pc = "idle"
    /\ IsStale(presentResult) => CanCreateChain
    /\ frames' = [frames EXCEPT ![currentFrame] =
                    [fence |-> frame.fence /\ fenceKept,
                     imageAvailable |-> frame.imageAvailable,
                     commandBuffer |-> IF frame.commandBuffer = "recording"
                                       THEN "pending" ELSE "invalid",
                     submitted |-> frame.submitted]]
    /\ pendingWork' = [pendingWork EXCEPT ![currentFrame] = @ + 1]
    /\ imagePresented' = TRUE
    /\ lastPresent' = presentResult
    /\ IF IsStale(presentResult)
       THEN /\ CreateSwapchain(backbuffer)
            /\ acquired' = {}
       ELSE /\ UNCHANGED swapVars
            /\ acquired' = acquired \ {currentImageIndex}
    /\ currentFrame' = NextFrame(currentFrame)
    /\ pc' = "beginWait"
    /\ UNCHANGED <<currentImageIndex, backbuffer, lastAcquire>>
    /\ UNCHANGED resVars
    /\ UNCHANGED recVars
    /\ UNCHANGED callVars

\* VULKAN_BeginFrame, the second half of VULKAN_SwapBuffers, from the point
\* where vkWaitForFences returns: reset the fence, acquire an image; on a
\* stale acquire recreate the swapchain and return, else reset the command
\* pool and begin the command buffer.  acquireResult and image are what
\* vkAcquireNextImageKHR returns.
BeginFrame(acquireResult, image) ==
    LET frame == frames[currentFrame] IN
    /\ pc = "beginWait"
    /\ frame.fence
    /\ IsStale(acquireResult) => CanCreateChain
    /\ IF acquireResult = VK_ERROR_OUT_OF_DATE_KHR
       THEN image = currentImageIndex
       ELSE image \in Images \ acquired
    /\ lastAcquire' = acquireResult
    /\ currentImageIndex' = image
    /\ imagePresented' = (acquireResult = VK_ERROR_OUT_OF_DATE_KHR /\ imagePresented)
    /\ IF IsStale(acquireResult)
       THEN /\ frames' = [frames EXCEPT ![currentFrame] =
                            [fence |-> FALSE,
                             imageAvailable |-> frame.imageAvailable
                                                \/ acquireResult = VK_SUBOPTIMAL_KHR,
                             commandBuffer |-> frame.commandBuffer,
                             submitted |-> frame.submitted]]
            /\ CreateSwapchain(backbuffer)
            /\ acquired' = {}
            /\ UNCHANGED <<currentCommandBuffer, recorded>>
       ELSE /\ frames' = [frames EXCEPT ![currentFrame] =
                            [fence |-> FALSE,
                             imageAvailable |-> TRUE,
                             commandBuffer |-> "recording",
                             submitted |-> frame.submitted]]
            /\ UNCHANGED swapVars
            /\ acquired' = acquired \cup {image}
            /\ currentCommandBuffer' = currentFrame
            /\ recorded' = recorded \ {currentFrame}
    /\ pc' = "idle"
    /\ UNCHANGED <<pendingWork, currentFrame, backbuffer, lastPresent>>
    /\ UNCHANGED resVars
    /\ UNCHANGED frameCount
    /\ UNCHANGED callVars

\* The GPU completes one queue submission of slot i and signals the fence
\* handed to vkQueueSubmit.  The submission waits on the slot's
\* imageAvailable semaphore: with a signal pending (signalPending) it
\* consumes it.  A wait with no signal pending is invalid usage: the GPU may
\* block on it for ever (no step), or run the submission without waiting
\* (~signalPending).
GpuComplete(i, signalPending) ==
    /\ pc \in {"idle", "beginWait", "disposeWait", "destroyWait"}
    /\ pendingWork[i] > 0
    /\ frames[i].imageAvailable = signalPending
    /\ pendingWork' = [pendingWork EXCEPT ![i] = @ - 1]
    /\ frames' = [frames EXCEPT ![i] =
                    [fence |-> TRUE, imageAvailable |-> FALSE,
                     commandBuffer |-> frames[i].commandBuffer,
                     submitted |-> frames[i].submitted]]
    /\ UNCHANGED <<pc, currentFrame, currentImageIndex, backbuffer, acquired,
                   imagePresented, lastAcquire, lastPresent>>
    /\ UNCHANGED swapVars
    /\ UNCHANGED resVars
    /\ UNCHANGED recVars
    /\ UNCHANGED callVars

\* a faulty reset that recreates the swapchain with the size it had stored
ResetBackbufferOldSize(size) ==
    /\ pc = "idle"
    /\ CanCreateChain
    /\ backbuffer' = size
    /\ CreateSwapchain(backbuffer)
    /\ acquired' = {}
    /\ UNCHANGED <<pc, frames, pendingWork, currentFrame, currentImageIndex,
                   imagePresented, lastAcquire, lastPresent>>
    /\ UNCHANGED resVars
    /\ UNCHANGED recVars
    /\ UNCHANGED callVars

\* VULKAN_ResetBackbuffer: store the new size, recreate the swapchain
ResetBackbuffer(size) ==
    /\ pc = "idle"
    /\ CanCreateChain
    /\ backbuffer' = size
    /\ CreateSwapchain(size)
    /\ acquired' = {}
    /\ UNCHANGED <<pc, frames, pendingWork, currentFrame, currentImageIndex,
                   imagePresented, lastAcquire, lastPresent>>
    /\ UNCHANGED resVars
    /\ UNCHANGED recVars
    /\ UNCHANGED callVars

frameVars == <<frames, pendingWork, currentFrame, currentImageIndex, backbuffer,
               acquired, imagePresented, lastAcquire, lastPresent>>

\* VULKAN_CreateTexture2D, successful path: linked at the head of textureList
CreateTexture2D(t) ==
    /\ pc = "idle"
    /\ resources[t] = "none"
    /\ resources' = [resources EXCEPT ![t] = "live"]
    /\ textureList' = <<t>> \o textureList
    /\ UNCHANGED <<pc, bufferList, disposing, idleWaits>>
    /\ UNCHANGED frameVars
    /\ UNCHANGED swapVars
    /\ UNCHANGED recVars
    /\ UNCHANGED callVars

\* VULKAN_GenVertexBuffer, successful path: linked at the head of bufferList
GenVertexBuffer(b) ==
    /\ pc = "idle"
    /\ resources[b] = "none"
    /\ resources' = [resources EXCEPT ![b] = "live"]
    /\ bufferList' = <<b>> \o bufferList
    /\ UNCHANGED <<pc, textureList, disposing, idleWaits>>
    /\ UNCHANGED frameVars
    /\ UNCHANGED swapVars
    /\ UNCHANGED recVars
    /\ UNCHANGED callVars

\* VULKAN_GenIndexBuffer, successful path: returned without being linked
GenIndexBuffer(b) ==
    /\ pc = "idle"
    /\ resources[b] = "none"
    /\ resources' = [resources EXCEPT ![b] = "live"]
    /\ UNCHANGED <<pc, textureList, bufferList, disposing, idleWaits>>
    /\ UNCHANGED frameVars
    /\ UNCHANGED swapVars
    /\ UNCHANGED recVars
    /\ UNCHANGED callVars

\* the entry of an AddDispose* call with a non-null resource, up to its
\* vkDeviceWaitIdle call, in which it blocks
EnterDispose(r) ==
    /\ pc = "idle"
    /\ resources[r] = "live"
    /\ pc' = "disposeWait"
    /\ disposing' = r
    /\ idleWaits' = idleWaits + 1
    /\ UNCHANGED <<resources, textureList, bufferList>>
    /\ UNCHANGED frameVars
    /\ UNCHANGED swapVars
    /\ UNCHANGED recVars
    /\ UNCHANGED callVars

\* VULKAN_AddDisposeTexture(texture), texture non-null
AddDisposeTexture(t) == EnterDispose(t)

\* VULKAN_AddDisposeVertexBuffer(buffer), buffer non-null
AddDisposeVertexBuffer(b) == EnterDispose(b)

\* VULKAN_AddDisposeIndexBuffer(buffer): calls VULKAN_AddDisposeVertexBuffer
AddDisposeIndexBuffer(b) == AddDisposeVertexBuffer(b)

\* the rest of an AddDispose* call once vkDeviceWaitIdle has returned: the
\* view/image or buffer is destroyed, the memory freed, the struct freed; the
\* entry is not unlinked from its tracking list
ReleaseAfterIdle ==
    /\ pc = "disposeWait"
    /\ DeviceIdle
    /\ resources' = [resources EXCEPT ![disposing] = "released"]
    /\ disposing' = NoResource
    /\ idleWaits' = 0
    /\ pc' = "idle"
    /\ UNCHANGED <<textureList, bufferList>>
    /\ UNCHANGED frameVars
    /\ UNCHANGED swapVars
    /\ UNCHANGED recVars
    /\ UNCHANGED callVars

\* VULKAN_DestroyDevice up to its vkDeviceWaitIdle call, in which it blocks
DestroyDevice ==
    /\ pc = "idle"
    /\ pc' = "destroyWait"
    /\ idleWaits' = idleWaits + 1
    /\ UNCHANGED <<resources, textureList, bufferList, disposing>>
    /\ UNCHANGED frameVars
    /\ UNCHANGED swapVars
    /\ UNCHANGED recVars
    /\ UNCHANGED callVars

\* the rest of VULKAN_DestroyDevice once vkDeviceWaitIdle has returned: the
\* frame resources, then the image views the renderer holds, then the
\* swapchain it holds, then the device
DestroyAfterIdle ==
    /\ pc = "destroyWait"
    /\ DeviceIdle
    /\ liveViewSets' = liveViewSets \ {imageViews}
    /\ liveSwapchains' = liveSwapchains \ {swapchain}
    /\ idleWaits' = 0
    /\ pc' = "destroyed"
    /\ UNCHANGED <<swapchain, imageViews, extent>>
    /\ UNCHANGED <<resources, textureList, bufferList, disposing>>
    /\ UNCHANGED frameVars
    /\ UNCHANGED recVars
    /\ UNCHANGED callVars

\* renderer->renderPassActive: zero from the memset of VULKAN_CreateDevice and
\* never set; VULKAN_EndFrame only clears it
renderPassActive == FALSE

\* a vkCmd* call of a state setter: it records into
\* renderer->currentCommandBuffer when that handle is not null
RecordCommand(active) ==
    /\ pc = "idle"
    /\ recorded' = IF currentCommandBuffer # NoCommandBuffer /\ active
                   THEN recorded \cup {currentCommandBuffer}
                   ELSE recorded
    /\ UNCHANGED <<pc, frameCount, currentCommandBuffer>>
    /\ UNCHANGED frameVars
    /\ UNCHANGED swapVars
    /\ UNCHANGED resVars
    /\ UNCHANGED callVars

\* VULKAN_SetViewport: vkCmdSetViewport
SetViewport == RecordCommand(TRUE)

\* VULKAN_SetScissorRect: vkCmdSetScissor
SetScissorRect == RecordCommand(TRUE)

\* VULKAN_SetBlendFactor: vkCmdSetBlendConstants
SetBlendFactor == RecordCommand(TRUE)

\* VULKAN_SetReferenceStencil: vkCmdSetStencilReference
SetReferenceStencil == RecordCommand(TRUE)

\* VULKAN_Clear with a non-empty attachment list: vkCmdClearAttachments, only
\* inside an active render pass
Clear == RecordCommand(renderPassActive)

Next ==
    \/ \E size \in Sizes : CreateDevice(size)
    \/ \E presentResult \in SurfaceResults, fenceKept \in BOOLEAN :
          EndFrame(presentResult, fenceKept)
    \/ \E acquireResult \in SurfaceResults, image \in Images :
          BeginFrame(acquireResult, image)
    \/ \E i \in Slots, signalPending \in BOOLEAN : GpuComplete(i, signalPending)
    \/ \E size \in Sizes : ResetBackbuffer(size)
    \/ \E t \in Textures : CreateTexture2D(t)
    \/ \E b \in VertexBuffers : GenVertexBuffer(b)
    \/ \E b \in IndexBuffers : GenIndexBuffer(b)
    \/ \E t \in Textures : AddDisposeTexture(t)
    \/ \E b \in VertexBuffers : AddDisposeVertexBuffer(b)
    \/ \E b \in IndexBuffers : AddDisposeIndexBuffer(b)
    \/ ReleaseAfterIdle
    \/ DestroyDevice
    \/ DestroyAfterIdle

Spec == Init /\ [][Next]_vars

\* the frame loop with the calls that record into the current command
\* buffer, without the creation and disposal of resources
RecordNext ==
    \/ \E size \in Sizes : CreateDevice(size)
    \/ \E presentResult \in SurfaceResults, fenceKept \in BOOLEAN :
          EndFrame(presentResult, fenceKept)
    \/ \E acquireResult \in SurfaceResults, image \in Images :
          BeginFrame(acquireResult, image)
    \/ \E i \in Slots, signalPending \in BOOLEAN : GpuComplete(i, signalPending)
    \/ \E size \in Sizes : ResetBackbuffer(size)
    \/ DestroyDevice
    \/ DestroyAfterIdle
    \/ SetViewport
    \/ SetScissorRect
    \/ SetBlendFactor
    \/ SetReferenceStencil
    \/ Clear

RecordSpec == Init /\ [][RecordNext]_vars

\* the frame loop alone, with the progress the threads make: the GPU runs a
\* submission whose semaphore wait has a signal pending, vkWaitForFences
\* returns once the fence is signaled and VULKAN_SwapBuffers goes on into
\* VULKAN_BeginFrame, and the application keeps calling VULKAN_SwapBuffers.
\* A submission whose wait has no signal pending is not owed any progress.
LiveNext ==
    \/ \E size \in Sizes : CreateDevice(size)
    \/ \E presentResult \in SurfaceResults, fenceKept \in BOOLEAN :
          EndFrame(presentResult, fenceKept)
    \/ \E acquireResult \in SurfaceResults, image \in Images :
          BeginFrame(acquireResult, image)
    \/ \E i \in Slots, signalPending \in BOOLEAN : GpuComplete(i, signalPending)

LiveFairness ==
    /\ \A i \in Slots : WF_vars(GpuComplete(i, TRUE))
    /\ WF_vars(\E acquireResult \in SurfaceResults, image \in Images :
                  BeginFrame(acquireResult, image))
    /\ WF_vars(\E presentResult \in SurfaceResults, fenceKept \in BOOLEAN :
                  EndFrame(presentResult, fenceKept))

LiveSpec == Init /\ [][LiveNext]_vars /\ LiveFairness

TypeOK ==
    /\ pc \in {"none", "idle", "beginWait", "disposeWait", "destroyWait", "destroyed"}
    /\ \A i \in Slots : pendingWork[i] \in 0 .. 2
    /\ currentFrame \in Slots
    /\ swapchain \in 0 .. MaxChains
    /\ Cardinality(acquired) <= 1

(* ---- the slot states of the frame state machine ---- *)

\* Submitted: the GPU owns work submitted on the slot
Submitted(i) == pendingWork[i] > 0
\* Recording: the slot's command buffer is open
Recording(i) == frames[i].commandBuffer = "recording"
\* Idle: the fence is signaled, nothing is in flight, nothing is open
Idle(i) == frames[i].fence /\ pendingWork[i] = 0 /\ ~Recording(i)

RECURSIVE SumTo(_, _)
SumTo(f, n) == IF n < 0 THEN 0 ELSE f[n] + SumTo(f, n - 1)

\* frames whose work the GPU still owns
InFlightFrames == SumTo(pendingWork, VULKAN_MAX_FRAMES_IN_FLIGHT - 1)

DeviceLive == pc \in {"idle", "beginWait", "disposeWait", "destroyWait"}

\* a step of VULKAN_EndFrame (the only step from "idle" to "beginWait")
EndFrameStep == pc = "idle" /\ pc' = "beginWait"

\* the idle wait of a disposal or of DestroyDevice returns only if the GPU
\* runs a submission whose semaphore wait has no signal pending: the driver
\* thread is blocked, so no acquire will signal that semaphore, and the GPU
\* may block on it for ever
StuckInIdleWait ==
    /\ pc \in {"disposeWait", "destroyWait"}
    /\ \E i \in Slots : pendingWork[i] > 0 /\ ~frames[i].imageAvailable

\* slot i's fence is unsignaled and the only submissions that can signal it
\* wait on a semaphore with no signal pending
DoomedFence(i) ==
    ~frames[i].fence /\ pendingWork[i] > 0 /\ ~frames[i].imageAvailable

StaleResults == {VK_ERROR_OUT_OF_DATE_KHR, VK_SUBOPTIMAL_KHR}

(* ---- functions called in isolation, with the native calls they make ---- *)

\* native calls, as <<what, kind of handle, index>>
OpCreate(kind, n) == <<"create", kind, n>>
OpDestroy(kind, n) == <<"destroy", kind, n>>
OpCallNull(fn) == <<"callNull", fn, 0>>

\* objects VULKAN_CreateFrameResources creates per slot, in order: command
\* pool, command buffer, fence, imageAvailable, renderFinished
FrameObjectsPerSlot == 5
NumFrameObjects == VULKAN_MAX_FRAMES_IN_FLIGHT * FrameObjectsPerSlot

\* the first n creations of a kind, indices 0 .. n-1
RECURSIVE CreateOps(_, _)
CreateOps(kind, n) ==
    IF n <= 0 THEN <<>> ELSE Append(CreateOps(kind, n - 1), OpCreate(kind, n - 1))

\* a query of the surface: capabilities, formats or present modes
OpQuery(what) == <<"query", what, 0>>

\* a faulty creation that asks the surface nothing
QuerySurfaceOpsNone == <<>>

\* the queries at the head of VULKAN_CreateSwapchain, in call order
QuerySurfaceOps ==
    <<OpQuery("capabilities"), OpQuery("formats"), OpQuery("presentModes")>>

\* VULKAN_CreateSwapchain as a sequence of native calls.  failAt = -1:
\* vkCreateSwapchainKHR fails; failAt = i in 0 .. NumImages-1: vkCreateImageView
\* fails for image i; failAt = NumImages: nothing fails.  Every failure
\* returns 0 at once.
CreateSwapchainOps(failAt) ==
    QuerySurfaceOps
    \o (IF failAt < 0
        THEN <<>>
        ELSE <<OpCreate("swapchain", 0), OpCreate("imageArray", 0),
               OpCreate("viewArray", 0)>> \o CreateOps("imageView", failAt))

CreateSwapchainResult(failAt) == IF failAt = NumImages THEN 1 ELSE 0

\* VULKAN_CreateFrameResources: creation k (0 .. NumFrameObjects-1) fails, or
\* none does (failAt = NumFrameObjects)
CreateFrameResourcesOps(failAt) == CreateOps("frameObject", failAt)

CreateFrameResourcesResult(failAt) == IF failAt = NumFrameObjects THEN 1 ELSE 0

\* the steps of VULKAN_CreateDevice that can fail, in order; the last entry
\* stands for "no step fails"
CreateDeviceSteps ==
    <<"vkGetInstanceProcAddr", "instance", "surface", "physicalDevice",
      "queueFamilies", "device", "functions", "swapchain", "frameResources",
      "none">>

StepIndex(step) == CHOOSE n \in 1 .. Len(CreateDeviceSteps) : CreateDeviceSteps[n] = step

\* step a is reached and passed when the call fails at step `failed`
Passed(a, failed) == StepIndex(a) < StepIndex(failed)

\* the sub-cases of a failing step: which native call inside it fails
SubCases(step) ==
    CASE step = "functions" -> {0, 1}          \* before / after vkDestroyDevice is loaded
      [] step = "swapchain" -> -1 .. (NumImages - 1)
      [] step = "frameResources" -> 0 .. (NumFrameObjects - 1)
      [] OTHER -> {0}

\* VULKAN_CreateDevice failing at `failed` (sub-case k), as the sequence of
\* native calls: the creations up to the failure, then the cleanup label,
\* which destroys the device, the surface and the instance if their handles
\* are set, through function pointers that are loaded only after the surface
\* exists (vkDestroyInstance, vkDestroySurfaceKHR) and inside
\* VULKAN_LoadFunctions (vkDestroyDevice).
CreateDeviceCreations(failed, k) ==
       (IF Passed("instance", failed) THEN <<OpCreate("instance", 0)>> ELSE <<>>)
    \o (IF Passed("surface", failed) THEN <<OpCreate("surface", 0)>> ELSE <<>>)
    \o (IF Passed("device", failed) THEN <<OpCreate("device", 0)>> ELSE <<>>)
    \o (IF Passed("swapchain", failed) THEN CreateSwapchainOps(NumImages)
        ELSE IF failed = "swapchain" THEN CreateSwapchainOps(k) ELSE <<>>)
    \o (IF Passed("frameResources", failed) THEN CreateFrameResourcesOps(NumFrameObjects)
        ELSE IF failed = "frameResources" THEN CreateFrameResourcesOps(k) ELSE <<>>)

\* vkDestroyDevice is loaded: VULKAN_LoadFunctions got past its line 982
DestroyDeviceLoaded(failed, k) ==
    Passed("functions", failed) \/ (failed = "functions" /\ k = 1)

\* vkDestroySurfaceKHR and vkDestroyInstance are loaded: the surface exists
DestroyInstanceLoaded(failed) == Passed("surface", failed)

CreateDeviceCleanup(failed, k) ==
    LET dev == IF ~Passed("device", failed) THEN <<>>
               ELSE IF DestroyDeviceLoaded(failed, k) THEN <<OpDestroy("device", 0)>>
               ELSE <<OpCallNull("vkDestroyDevice")>>
        surf == IF Passed("surface", failed) THEN <<OpDestroy("surface", 0)>> ELSE <<>>
        inst == IF ~Passed("instance", failed) THEN <<>>
                ELSE IF DestroyInstanceLoaded(failed) THEN <<OpDestroy("instance", 0)>>
                ELSE <<OpCallNull("vkDestroyInstance")>>
    IN  IF dev # <<>> /\ dev[1][1] = "callNull" THEN dev
        ELSE dev \o surf \o inst

CreateDeviceOps(failed, k) ==
    IF failed = "none"
    THEN CreateDeviceCreations(failed, k)
    ELSE CreateDeviceCreations(failed, k) \o CreateDeviceCleanup(failed, k)

\* what VULKAN_CreateDevice returns: the device, NULL, or nothing when the
\* cleanup calls through a null function pointer
CreateDeviceResult(failed, k) ==
    IF failed = "none" THEN "device"
    ELSE IF \E n \in 1 .. Len(CreateDeviceCleanup(failed, k)) :
               CreateDeviceCleanup(failed, k)[n][1] = "callNull"
         THEN "crash"
         ELSE "NULL"

(* ---- 32-bit unsigned values, as <<high half, low half>> ---- *)

U32(n) == <<n \div 65536, n % 65536>>
UINT32_MAX == <<65535, 65535>>
U32Less(a, b) == a[1] < b[1] \/ (a[1] = b[1] /\ a[2] < b[2])
U32LessEq(a, b) == a = b \/ U32Less(a, b)
\* a + 1 in uint32_t arithmetic
U32Inc(a) ==
    IF a[2] < 65535 THEN <<a[1], a[2] + 1>>
    ELSE <<(a[1] + 1) % 65536, 0>>

(* ---- VULKAN_INTERNAL_FindMemoryType ---- *)

\* length bound of the variable part of a memory-type table
MaxTypes == 3
\* VkPhysicalDeviceMemoryProperties.memoryTypes has this many entries
VK_MAX_MEMORY_TYPES == 32

VK_MEMORY_PROPERTY_DEVICE_LOCAL_BIT == "DEVICE_LOCAL"
VK_MEMORY_PROPERTY_HOST_VISIBLE_BIT == "HOST_VISIBLE"
VK_MEMORY_PROPERTY_HOST_COHERENT_BIT == "HOST_COHERENT"

\* property flag sets of memory types
TypeFlagSets ==
    {{VK_MEMORY_PROPERTY_DEVICE_LOCAL_BIT},
     {VK_MEMORY_PROPERTY_HOST_VISIBLE_BIT},
     {VK_MEMORY_PROPERTY_HOST_VISIBLE_BIT, VK_MEMORY_PROPERTY_HOST_COHERENT_BIT},
     {VK_MEMORY_PROPERTY_DEVICE_LOCAL_BIT, VK_MEMORY_PROPERTY_HOST_VISIBLE_BIT,
      VK_MEMORY_PROPERTY_HOST_COHERENT_BIT}}

\* required property sets: those the driver asks for, and none
RequiredFlagSets ==
    {{}, {VK_MEMORY_PROPERTY_DEVICE_LOCAL_BIT},
     {VK_MEMORY_PROPERTY_HOST_VISIBLE_BIT, VK_MEMORY_PROPERTY_HOST_COHERENT_BIT}}

\* memory-type tables: sequences of flag sets of length 0 .. MaxTypes
TypeTables == UNION {[1 .. n -> TypeFlagSets] : n \in 0 .. MaxTypes}

\* a table filled up to VK_MAX_MEMORY_TYPES entries: host-visible types in
\* front, the given types last
RECURSIVE PadTypes(_)
PadTypes(types) ==
    IF Len(types) >= VK_MAX_MEMORY_TYPES THEN types
    ELSE PadTypes(<<{VK_MEMORY_PROPERTY_HOST_VISIBLE_BIT}>> \o types)

\* a faulty test: some required flag is present, not all of them
QualifiesAnyFlag(i, typeFilter, properties, memoryTypes) ==
    /\ i \in typeFilter
    /\ (memoryTypes[i + 1] \cap properties) # {}

\* the test of the loop body: (typeFilter & (1 << i)) and
\* (propertyFlags & properties) == properties.  typeFilter is the set of the
\* bits that are set in the mask.
Qualifies(i, typeFilter, properties, memoryTypes) ==
    /\ i \in typeFilter
    /\ (memoryTypes[i + 1] \cap properties) = properties

\* the loop of VULKAN_INTERNAL_FindMemoryType from index i on
RECURSIVE FindMemoryTypeFrom(_, _, _, _)
FindMemoryTypeFrom(i, typeFilter, properties, memoryTypes) ==
    IF i >= Len(memoryTypes) THEN UINT32_MAX
    ELSE IF Qualifies(i, typeFilter, properties, memoryTypes) THEN U32(i)
    ELSE FindMemoryTypeFrom(i + 1, typeFilter, properties, memoryTypes)

FindMemoryType(typeFilter, properties, memoryTypes) ==
    FindMemoryTypeFrom(0, typeFilter, properties, memoryTypes)

\* VULKAN_INTERNAL_FindMemoryType called with a filter, a required set and
\* the table renderer->memoryProperties holds
FindMemoryTypeCall(typeFilter, properties, memoryTypes) ==
    /\ call = NoCall
    /\ call' = <<"FindMemoryType", typeFilter, properties, memoryTypes>>
    /\ ret' = <<"FindMemoryType", FindMemoryType(typeFilter, properties, memoryTypes)>>
    /\ ops' = <<>>
    /\ UNCHANGED driverVars

\* the inputs of a call: a table, as it is or filled up to 32 entries, and
\* a filter over the indices of the given types (plus bit 0 when filled up)
FindMemoryTypeInputs ==
    {<<f, t>> : f \in SUBSET (0 .. (MaxTypes - 1)), t \in TypeTables}
    \cup {<<{b + (VK_MAX_MEMORY_TYPES - Len(t)) : b \in f} \cup {0}, PadTypes(t)>> :
            f \in SUBSET (0 .. (MaxTypes - 1)), t \in TypeTables}

(* ---- VULKAN_CreateTexture2D, VULKAN_GenVertexBuffer, VULKAN_GenIndexBuffer ---- *)

OpAllocate(memoryTypeIndex) == <<"allocate", "memory", memoryTypeIndex>>
OpMap == <<"map", "memory", 0>>
OpBind(obj) == <<"bind", obj, 0>>
OpLink(list) == <<"link", list, 0>>

CreateKinds == {"Texture2D", "VertexBuffer", "IndexBuffer"}

\* the native object a create call makes first
NativeObject(kind) == IF kind = "Texture2D" THEN "image" ELSE "buffer"

\* the property flags a create call requires of the memory type
RequiredFlags(kind, dynamic) ==
    IF kind # "Texture2D" /\ dynamic
    THEN {VK_MEMORY_PROPERTY_HOST_VISIBLE_BIT, VK_MEMORY_PROPERTY_HOST_COHERENT_BIT}
    ELSE {VK_MEMORY_PROPERTY_DEVICE_LOCAL_BIT}

\* the first native call of a create call that fails: vkCreateImage /
\* vkCreateBuffer, vkAllocateMemory, vkBindImageMemory / vkBindBufferMemory,
\* vkCreateImageView (textures), vkMapMemory (dynamic buffers), or none
CreateFailures(kind, dynamic) ==
    IF kind = "Texture2D" THEN {"create", "allocate", "bind", "view", "none"}
    ELSE IF dynamic THEN {"create", "allocate", "bind", "map", "none"}
    ELSE {"create", "allocate", "bind", "none"}

\* the failures a create call tests for; the results of the bind and of the
\* map are not looked at
CheckedFailures == {"create", "allocate", "view"}

\* a create call as the sequence of its native calls.  The index that
\* VULKAN_INTERNAL_FindMemoryType returns goes into the allocation as it is.
CreateResourceOps(kind, dynamic, typeFilter, memoryTypes, fails) ==
    LET obj == NativeObject(kind)
        index == FindMemoryType(typeFilter, RequiredFlags(kind, dynamic), memoryTypes)
    IN  IF fails = "create" THEN <<>>
        ELSE IF fails = "allocate"
        THEN <<OpCreate(obj, 0), OpAllocate(index), OpDestroy(obj, 0)>>
        ELSE IF fails = "view"
        THEN <<OpCreate(obj, 0), OpAllocate(index), OpBind(obj),
               OpDestroy("memory", 0), OpDestroy(obj, 0)>>
        ELSE <<OpCreate(obj, 0), OpAllocate(index), OpBind(obj)>>
             \o (IF kind = "Texture2D" THEN <<OpCreate("imageView", 0)>> ELSE <<>>)
             \o (IF kind # "Texture2D" /\ dynamic THEN <<OpMap>> ELSE <<>>)
             \o (IF kind = "Texture2D" THEN <<OpLink("textureList")>>
                 ELSE IF kind = "VertexBuffer" THEN <<OpLink("bufferList")>>
                 ELSE <<>>)

CreateResourceResult(fails) == IF fails \in CheckedFailures THEN "NULL" ELSE "resource"

\* the memoryTypeBits a resource may report: the first type only, or all
TypeFilters == {{0}, 0 .. (MaxTypes - 1)}

\* the memory-type tables of a device: at least one type
DeviceTypeTables == TypeTables \ {<<>>}

\* a create call made with the memory-type table of the device and the
\* memory requirements (typeFilter) of the new image or buffer; the
\* allocation with an index that is not in the table is invalid usage and
\* may fail or not (fails)
CreateResourceCall(kind, dynamic, typeFilter, memoryTypes, fails) ==
    /\ call = NoCall
    /\ call' = <<"CreateResource", kind, dynamic, typeFilter, memoryTypes, fails>>
    /\ ret' = <<"CreateResource", CreateResourceResult(fails)>>
    /\ ops' = CreateResourceOps(kind, dynamic, typeFilter, memoryTypes, fails)
    /\ UNCHANGED driverVars

(* ---- VULKAN_AddDisposeVertexBuffer, VULKAN_AddDisposeIndexBuffer ---- *)

OpWaitIdle == <<"waitIdle", "device", 0>>
OpUnmap == <<"unmap", "memory", 0>>

\* a faulty disposal that frees the memory before it unmaps it
DisposeBufferOpsFreeFirst(isNull, mapped) ==
    IF isNull THEN <<>>
    ELSE <<OpWaitIdle, OpDestroy("buffer", 0), OpDestroy("memory", 0)>>
         \o (IF mapped THEN <<OpUnmap>> ELSE <<>>)
         \o <<OpDestroy("VulkanBuffer", 0)>>

\* VULKAN_AddDisposeVertexBuffer as the sequence of its native calls, for a
\* null pointer or a buffer made by Gen*Buffer (buffer and memory handles
\* set; mappedPointer set when the buffer is dynamic and was mapped)
DisposeBufferOps(isNull, mapped) ==
    IF isNull THEN <<>>
    ELSE <<OpWaitIdle>>
         \o (IF mapped THEN <<OpUnmap>> ELSE <<>>)
         \o <<OpDestroy("buffer", 0), OpDestroy("memory", 0), OpDestroy("VulkanBuffer", 0)>>

\* the buffers a disposal may get: <<isNull, dynamic, mapped>>; a static
\* buffer is never mapped, a dynamic one is unless vkMapMemory failed
DisposeInputs ==
    {<<TRUE, FALSE, FALSE>>, <<FALSE, FALSE, FALSE>>,
     <<FALSE, TRUE, TRUE>>, <<FALSE, TRUE, FALSE>>}

\* a disposal through entry point `entry`; VULKAN_AddDisposeIndexBuffer
\* passes its arguments to VULKAN_AddDisposeVertexBuffer
DisposeBufferCall(entry, isNull, dynamic, mapped) ==
    /\ call = NoCall
    /\ call' = <<"DisposeBuffer", entry, isNull, dynamic, mapped>>
    /\ ret' = <<"DisposeBuffer">>
    /\ ops' = DisposeBufferOps(isNull, mapped)
    /\ UNCHANGED driverVars

(* ---- VULKAN_AddDisposeTexture ---- *)

\* a faulty disposal that waits for the device before it looks at the pointer
DisposeTextureOpsWaitFirst(isNull) ==
    IF isNull THEN <<OpWaitIdle>>
    ELSE <<OpWaitIdle, OpDestroy("imageView", 0), OpDestroy("image", 0),
           OpDestroy("memory", 0), OpDestroy("VulkanTexture", 0)>>

\* VULKAN_AddDisposeTexture as the sequence of its native calls, for a null
\* pointer or a texture made by VULKAN_CreateTexture2D (view, image and
\* memory handles set)
DisposeTextureOps(isNull) ==
    IF isNull THEN <<>>
    ELSE <<OpWaitIdle, OpDestroy("imageView", 0), OpDestroy("image", 0),
           OpDestroy("memory", 0), OpDestroy("VulkanTexture", 0)>>

DisposeTextureCall(isNull) ==
    /\ call = NoCall
    /\ call' = <<"DisposeTexture", "AddDisposeTexture", isNull>>
    /\ ret' = <<"DisposeTexture">>
    /\ ops' = DisposeTextureOps(isNull)
    /\ UNCHANGED driverVars

\* VULKAN_CreateDevice called with a native failure at `failed`
CreateDeviceCall(failed, k) ==
    /\ call = NoCall
    /\ call' = <<"CreateDevice", failed, k>>
    /\ ret' = <<"CreateDevice", CreateDeviceResult(failed, k)>>
    /\ ops' = CreateDeviceOps(failed, k)
    /\ UNCHANGED driverVars

(* ---- the selection policy of VULKAN_CreateSwapchain ---- *)

\* length bounds of the reported format and present-mode lists
MaxFormats == 2
MaxModes == 2

VK_FORMAT_B8G8R8A8_UNORM == "B8G8R8A8_UNORM"
VK_FORMAT_R8G8B8A8_UNORM == "R8G8B8A8_UNORM"
VK_COLOR_SPACE_SRGB_NONLINEAR_KHR == "SRGB_NONLINEAR"
VK_COLOR_SPACE_EXTENDED_SRGB_LINEAR_EXT == "EXTENDED_SRGB_LINEAR"
VK_PRESENT_MODE_FIFO_KHR == "FIFO"
VK_PRESENT_MODE_MAILBOX_KHR == "MAILBOX"
VK_PRESENT_MODE_IMMEDIATE_KHR == "IMMEDIATE"

\* the initial value of surfaceFormat: <<format, colorSpace>>
CanonicalFormat == <<VK_FORMAT_B8G8R8A8_UNORM, VK_COLOR_SPACE_SRGB_NONLINEAR_KHR>>

\* the format loop from entry i on: the first canonical entry, else the
\* initial value of surfaceFormat
RECURSIVE ChooseFormatFrom(_, _)
ChooseFormatFrom(i, formats) ==
    IF i > Len(formats) THEN CanonicalFormat
    ELSE IF formats[i][1] = VK_FORMAT_B8G8R8A8_UNORM
            /\ formats[i][2] = VK_COLOR_SPACE_SRGB_NONLINEAR_KHR
    THEN formats[i]
    ELSE ChooseFormatFrom(i + 1, formats)

ChooseFormat(formats) == ChooseFormatFrom(1, formats)

\* a faulty present-mode choice that looks at the first entry only
ChoosePresentModeFirstOnly(modes) ==
    IF modes # <<>> /\ modes[1] = VK_PRESENT_MODE_MAILBOX_KHR
    THEN VK_PRESENT_MODE_MAILBOX_KHR
    ELSE VK_PRESENT_MODE_FIFO_KHR

\* the present-mode loop from entry i on: MAILBOX when an entry is MAILBOX,
\* else the initial value FIFO
RECURSIVE ChoosePresentModeFrom(_, _)
ChoosePresentModeFrom(i, modes) ==
    IF i > Len(modes) THEN VK_PRESENT_MODE_FIFO_KHR
    ELSE IF modes[i] = VK_PRESENT_MODE_MAILBOX_KHR THEN VK_PRESENT_MODE_MAILBOX_KHR
    ELSE ChoosePresentModeFrom(i + 1, modes)

ChoosePresentMode(modes) == ChoosePresentModeFrom(1, modes)

\* the two clamping statements on one component
ClampComponent(v, lo, hi) ==
    LET raised == IF U32Less(v, lo) THEN lo ELSE v
    IN  IF U32Less(hi, raised) THEN hi ELSE raised

\* a faulty extent choice that clamps the request whatever the surface says
ChooseExtentAlwaysClamp(size, caps) ==
    <<ClampComponent(size[1], caps.minImageExtent[1], caps.maxImageExtent[1]),
      ClampComponent(size[2], caps.minImageExtent[2], caps.maxImageExtent[2])>>

\* "Clamp extent": the current extent unless its width is UINT32_MAX
ChooseExtent(size, caps) ==
    IF caps.currentExtent[1] # UINT32_MAX
    THEN caps.currentExtent
    ELSE <<ClampComponent(size[1], caps.minImageExtent[1], caps.maxImageExtent[1]),
           ClampComponent(size[2], caps.minImageExtent[2], caps.maxImageExtent[2])>>

\* imageCount = caps.minImageCount + 1 in uint32_t, cut to a non-zero maximum
ChooseImageCount(caps) ==
    LET imageCount == U32Inc(caps.minImageCount)
    IN  IF U32Less(U32(0), caps.maxImageCount) /\ U32Less(caps.maxImageCount, imageCount)
        THEN caps.maxImageCount
        ELSE imageCount

\* the VkSwapchainCreateInfoKHR the call builds
SwapchainCreateInfo(size, caps, formats, modes, held) ==
    [minImageCount |-> ChooseImageCount(caps),
     imageFormat |-> ChooseFormat(formats)[1],
     imageColorSpace |-> ChooseFormat(formats)[2],
     imageExtent |-> ChooseExtent(size, caps),
     presentMode |-> ChoosePresentMode(modes),
     oldSwapchain |-> held]

\* --- the inputs of a call ---

Extent(w, h) == <<U32(w), U32(h)>>
UndefinedExtent == <<UINT32_MAX, UINT32_MAX>>
Caps(cur, min, max, minCount, maxCount) ==
    [currentExtent |-> cur, minImageExtent |-> min, maxImageExtent |-> max,
     minImageCount |-> minCount, maxImageCount |-> maxCount]

\* a surface that leaves the extent to the swapchain and takes 2 to 3 images
DefaultCaps == Caps(UndefinedExtent, Extent(1, 1), Extent(4, 4), U32(2), U32(3))

\* extent snapshots: min <= max; a defined current extent lies between them.
\* The all-zero snapshot is what a minimised window reports.
ExtentBounds == {<<lo, hi>> \in {1, 2, 4} \X {1, 2, 4} : lo <= hi}
ExtentCaps ==
    {Caps(UndefinedExtent, Extent(b[1], b[1]), Extent(b[2], b[2]), U32(2), U32(3)) :
        b \in ExtentBounds}
    \cup {Caps(<<UINT32_MAX, U32(3)>>, Extent(b[1], b[1]), Extent(b[2], b[2]), U32(2), U32(3)) :
        b \in ExtentBounds}
    \cup UNION {{Caps(Extent(c, b[2]), Extent(b[1], b[1]), Extent(b[2], b[2]), U32(2), U32(3)) :
                    c \in {x \in {1, 2, 4} : b[1] <= x /\ x <= b[2]}} : b \in ExtentBounds}
    \cup {Caps(Extent(0, 0), Extent(0, 0), Extent(0, 0), U32(2), U32(3))}

\* image-count snapshots: maxImageCount is 0 (no limit) or >= minImageCount
CountValues == {U32(1), U32(2), U32(3), U32(4), UINT32_MAX}
CountCaps ==
    UNION {{Caps(UndefinedExtent, Extent(1, 1), Extent(4, 4), lo, hi) :
               hi \in {x \in CountValues \cup {U32(0)} : x = U32(0) \/ U32LessEq(lo, x)}} :
           lo \in CountValues}

RequestedSizes == {Extent(0, 0), Extent(1, 5), Extent(3, 3), Extent(5, 1)}

FormatEntries ==
    {CanonicalFormat,
     <<VK_FORMAT_B8G8R8A8_UNORM, VK_COLOR_SPACE_EXTENDED_SRGB_LINEAR_EXT>>,
     <<VK_FORMAT_R8G8B8A8_UNORM, VK_COLOR_SPACE_SRGB_NONLINEAR_KHR>>}
FormatLists == UNION {[1 .. n -> FormatEntries] : n \in 0 .. MaxFormats}

PresentModes ==
    {VK_PRESENT_MODE_FIFO_KHR, VK_PRESENT_MODE_MAILBOX_KHR, VK_PRESENT_MODE_IMMEDIATE_KHR}
ModeLists == UNION {[1 .. n -> PresentModes] : n \in 0 .. MaxModes}

DefaultFormats == <<CanonicalFormat>>
DefaultModes == <<VK_PRESENT_MODE_FIFO_KHR>>

\* the chain the renderer holds when the call is made: none (the call of
\* VULKAN_CreateDevice) or the chain of an earlier call
HeldChains == {VK_NULL_HANDLE, 1}

\* <<size, caps, formats, modes, failAt, held>>: one of the surface answers
\* or the native failure varies, the others are the defaults
SwapchainInputs ==
    {<<size, caps, DefaultFormats, DefaultModes, NumImages, held>> :
        size \in RequestedSizes, caps \in ExtentCaps \cup CountCaps, held \in HeldChains}
    \cup {<<Extent(3, 3), DefaultCaps, formats, DefaultModes, NumImages, held>> :
        formats \in FormatLists, held \in HeldChains}
    \cup {<<Extent(3, 3), DefaultCaps, DefaultFormats, modes, NumImages, held>> :
        modes \in ModeLists, held \in HeldChains}
    \cup {<<Extent(3, 3), DefaultCaps, DefaultFormats, DefaultModes, failAt, held>> :
        failAt \in -1 .. NumImages, held \in HeldChains}

\* VULKAN_CreateSwapchain called on a live device with what the surface
\* reports and a native failure at failAt
CreateSwapchainCall(size, caps, formats, modes, failAt, held) ==
    /\ call = NoCall
    /\ call' = <<"CreateSwapchain", failAt, size, caps, formats, modes, held>>
    /\ ret' = <<"CreateSwapchain", CreateSwapchainResult(failAt),
               SwapchainCreateInfo(size, caps, formats, modes, held)>>
    /\ ops' = CreateSwapchainOps(failAt)
    /\ UNCHANGED driverVars

(* ---- VULKAN_FindQueueFamilies, VULKAN_INTERNAL_CreateDevice ---- *)

\* length bound of the physical device's queue family list
MaxFamilies == 2

\* a queue family: whether its queueFlags have VK_QUEUE_GRAPHICS_BIT, and what
\* vkGetPhysicalDeviceSurfaceSupportKHR reports for it
QueueFamilies == [graphics : BOOLEAN, present : BOOLEAN]
FamilyLists == UNION {[1 .. n -> QueueFamilies] : n \in 0 .. MaxFamilies}

\* the loop of VULKAN_FindQueueFamilies from index i on, with the indices
\* stored so far; it breaks once both are set
RECURSIVE FindQueueFamiliesFrom(_, _, _, _)
FindQueueFamiliesFrom(i, families, graphicsQueueFamilyIndex, presentQueueFamilyIndex) ==
    IF i >= Len(families)
    THEN <<graphicsQueueFamilyIndex, presentQueueFamilyIndex>>
    ELSE LET g == IF families[i + 1].graphics THEN U32(i) ELSE graphicsQueueFamilyIndex
             p == IF families[i + 1].present THEN U32(i) ELSE presentQueueFamilyIndex
         IN  IF g # UINT32_MAX /\ p # UINT32_MAX
             THEN <<g, p>>
             ELSE FindQueueFamiliesFrom(i + 1, families, g, p)

\* <<graphicsQueueFamilyIndex, presentQueueFamilyIndex>> after the loop
QueueFamilyIndices(families) ==
    FindQueueFamiliesFrom(0, families, UINT32_MAX, UINT32_MAX)

\* what VULKAN_FindQueueFamilies returns
FindQueueFamilies(families) ==
    IF QueueFamilyIndices(families)[1] = UINT32_MAX THEN 0 ELSE 1

\* VULKAN_INTERNAL_CreateDevice: the queueFamilyIndex of each
\* VkDeviceQueueCreateInfo handed to vkCreateDevice
DeviceQueueFamilies(indices) ==
    IF indices[2] # indices[1] THEN <<indices[1], indices[2]>> ELSE <<indices[1]>>

\* VULKAN_CreateDevice from the queue family search to the device queues,
\* every other step succeeding: the search, vkCreateDevice (deviceFails: it
\* returns an error), the two vkGetDeviceQueue calls.  The result holds what
\* is returned, the family indices handed to vkCreateDevice and the family
\* index the present queue was fetched with.
QueueFamiliesCall(families, deviceFails) ==
    LET indices == QueueFamilyIndices(families)
        found == FindQueueFamilies(families) = 1
        created == found /\ ~deviceFails
    IN  /\ call = NoCall
        /\ call' = <<"QueueFamilies", families, deviceFails>>
        /\ ret' = <<"QueueFamilies",
                    IF created THEN "device" ELSE "NULL",
                    IF found THEN DeviceQueueFamilies(indices) ELSE <<>>,
                    IF created THEN <<indices[2]>> ELSE <<>>>>
        /\ ops' = IF created THEN <<OpCreate("device", 0)>> ELSE <<>>
        /\ UNCHANGED driverVars

(* ---- VULKAN_EndFrame, with the native calls it makes ---- *)

OpEndRenderPass(cb) == <<"endRenderPass", "commandBuffer", cb>>
OpEndCommandBuffer(cb) == <<"endCommandBuffer", "commandBuffer", cb>>
OpSubmit(cb) == <<"submit", "commandBuffer", cb>>
OpPresent == <<"present", "swapchain", 0>>

\* a faulty end-frame that does not end an active render pass
EndFrameOpsPassLeftOpen(active, current, slot, presentResult) ==
    <<OpEndCommandBuffer(slot), OpSubmit(slot), OpPresent>>
    \o (IF IsStale(presentResult) THEN CreateSwapchainOps(NumImages) ELSE <<>>)

\* the native calls of VULKAN_EndFrame, in call order: active is
\* renderer->renderPassActive on entry, current is
\* renderer->currentCommandBuffer, slot is renderer->currentFrame, whose
\* command buffer is ended and submitted
EndFrameOps(active, current, slot, presentResult) ==
    (IF active THEN <<OpEndRenderPass(current)>> ELSE <<>>)
    \o <<OpEndCommandBuffer(slot), OpSubmit(slot), OpPresent>>
    \o (IF IsStale(presentResult) THEN CreateSwapchainOps(NumImages) ELSE <<>>)

\* VULKAN_EndFrame called with the renderer in a given state; the result
\* holds renderPassActive and currentFrame as the call leaves them
EndFrameCall(active, current, slot, presentResult) ==
    /\ call = NoCall
    /\ call' = <<"EndFrame", active, current, slot, presentResult>>
    /\ ret' = <<"EndFrame", IF active THEN FALSE ELSE active, NextFrame(slot)>>
    /\ ops' = EndFrameOps(active, current, slot, presentResult)
    /\ UNCHANGED driverVars

CallNext ==
    \/ \E failed \in {CreateDeviceSteps[n] : n \in 1 .. Len(CreateDeviceSteps)} :
          \E k \in SubCases(failed) : CreateDeviceCall(failed, k)
    \/ \E in \in SwapchainInputs : CreateSwapchainCall(in[1], in[2], in[3], in[4], in[5], in[6])
    \/ \E in \in FindMemoryTypeInputs, properties \in RequiredFlagSets :
          FindMemoryTypeCall(in[1], properties, in[2])
    \/ \E kind \in CreateKinds, typeFilter \in TypeFilters, memoryTypes \in DeviceTypeTables :
          \E dynamic \in (IF kind = "Texture2D" THEN {FALSE} ELSE BOOLEAN) :
             \E fails \in CreateFailures(kind, dynamic) :
                CreateResourceCall(kind, dynamic, typeFilter, memoryTypes, fails)
    \/ \E entry \in {"AddDisposeVertexBuffer", "AddDisposeIndexBuffer"}, in \in DisposeInputs :
          DisposeBufferCall(entry, in[1], in[2], in[3])
    \/ \E isNull \in BOOLEAN : DisposeTextureCall(isNull)
    \/ \E families \in FamilyLists, deviceFails \in BOOLEAN :
          QueueFamiliesCall(families, deviceFails)
    \/ \E active \in BOOLEAN, current \in Slots \cup {NoCommandBuffer}, slot \in Slots,
             presentResult \in SurfaceResults :
          EndFrameCall(active, current, slot, presentResult)

CallSpec == Init /\ [][CallNext]_vars

\* handles created / destroyed by a sequence of native calls, in call order
IsCreate(op) == op[1] = "create"
IsDestroy(op) == op[1] = "destroy"
Handle(op) == <<op[2], op[3]>>
RECURSIVE Handles(_)
Handles(seq) == IF seq = <<>> THEN <<>> ELSE <<Handle(Head(seq))>> \o Handles(Tail(seq))
RECURSIVE Reverse(_)
Reverse(seq) == IF seq = <<>> THEN <<>> ELSE Append(Reverse(Tail(seq)), Head(seq))

(* ---- claims ---- *)

\* C1 (as claimed): backpressure - at most N = VULKAN_MAX_FRAMES_IN_FLIGHT
\* frames are ever in flight (submitted, not completed by the GPU) at once.
C1_Backpressure == InFlightFrames <= VULKAN_MAX_FRAMES_IN_FLIGHT

\* C2 (as claimed): slot exclusivity - a slot never carries two frames at
\* once: it has at most one submission in flight, and none while its command
\* buffer is being re-recorded.
C2_SlotExclusive ==
    \A i \in Slots : pendingWork[i] <= 1 /\ (Recording(i) => pendingWork[i] = 0)

\* a step that releases resource r
Releases(r) == resources[r] = "live" /\ resources'[r] = "released"

\* C3 (as claimed): a resource is released only after one device-idle wait
\* that returned with every slot's fence signaled.
C3_BarrierAllFencesSignaled ==
    [][\A r \in Resources : Releases(r) =>
          (idleWaits = 1 /\ \A i \in Slots : frames[i].fence)]_vars

\* C3 (amended): every release of a resource happens in a disposal call that
\* made exactly one device-idle wait, and at the release no slot is
\* Submitted (no submission is in flight); the fence of a slot that
\* begin-frame has reset may be unsignaled.
C3_DisposalBarrier ==
    [][\A r \in Resources : Releases(r) =>
          (idleWaits = 1 /\ disposing = r /\ \A i \in Slots : ~Submitted(i))]_vars

\* C3 witness: a resource has been released after frames were submitted,
\* with nothing in flight and the current slot's fence reset by begin-frame
C3_Witness ==
    /\ \E r \in Resources : resources[r] = "released"
    /\ lastPresent # "none"
    /\ pc = "idle"
    /\ \A i \in Slots : pendingWork[i] = 0
    /\ ~frames[currentFrame].fence

\* C4 (as claimed): while the device lives exactly one swapchain and exactly
\* one set of image views are live, those the renderer holds; after
\* DestroyDevice none is.
C4_NoSwapchainLeak ==
    /\ DeviceLive => (liveSwapchains = {swapchain} /\ liveViewSets = {imageViews})
    /\ pc = "destroyed" => (liveSwapchains = {} /\ liveViewSets = {})

\* C5 (as claimed): after a stale acquire no submission is made for the
\* aborted frame: as long as the last acquire was stale, the current slot
\* gets no new submission.
C5_StaleAcquireAborts ==
    [][(lastAcquire \in StaleResults) =>
          (pendingWork'[currentFrame] <= pendingWork[currentFrame])]_vars

\* C6 (as claimed): the loop resumes cleanly after a stale acquire - the
\* end-frame that follows it presents no image that was not re-acquired
\* since its last present, and leaves no reset fence waiting for a
\* submission that cannot complete.
C6_ResumesAfterStale ==
    [][(EndFrameStep /\ lastAcquire \in StaleResults) =>
          (~imagePresented /\ \A i \in Slots : i = currentFrame => ~DoomedFence(i)')]_vars

C8_SubmitWaitsOnAcquire ==
    [][EndFrameStep =>
          (frames[currentFrame].imageAvailable /\ lastAcquire = VK_SUCCESS)]_vars

\* C9 (as claimed): every end-frame is preceded by a begin-frame on the same
\* slot - the command buffer it ends and submits is the one begin-frame
\* opened.
C9_EndAfterBegin ==
    [][EndFrameStep => Recording(currentFrame)]_vars

\* C10 (as claimed): the idle wait of DestroyDevice returns, and when the
\* device is destroyed every slot is Idle.
C10_TeardownIdle ==
    /\ ~(pc = "destroyWait" /\ StuckInIdleWait)
    /\ pc = "destroyed" => \A i \in Slots : Idle(i)

\* C11 (as claimed): when a step of CreateDevice fails, the call returns
\* NULL and the handles it created have all been destroyed, in reverse order
\* of creation; a device is returned only when no step failed.
C11_FatalAtCreation ==
    call[1] = "CreateDevice" =>
        /\ (ret[2] = "device") = (call[2] = "none")
        /\ call[2] # "none" =>
              /\ ret[2] = "NULL"
              /\ Handles(SelectSeq(ops, IsDestroy))
                    = Reverse(Handles(SelectSeq(ops, IsCreate)))

\* C12 (as claimed): when VULKAN_CreateSwapchain fails it reports failure and
\* has released the image views and the arrays it created in the call.
C12_SwapchainFailureReleases ==
    (call[1] = "CreateSwapchain" /\ call[2] < NumImages) =>
        /\ ret[2] = 0
        /\ \A n \in 1 .. Len(ops) :
              (IsCreate(ops[n]) /\ ops[n][2] \in {"imageView", "imageArray", "viewArray"})
                 => \E m \in (n + 1) .. Len(ops) :
                       IsDestroy(ops[m]) /\ Handle(ops[m]) = Handle(ops[n])

\* the indices FindMemoryType may return: bit set in the filter and the
\* type's flags a superset of the required ones
QualifyingTypes(typeFilter, properties, memoryTypes) ==
    {i \in 0 .. (Len(memoryTypes) - 1) :
        i \in typeFilter /\ properties \subseteq memoryTypes[i + 1]}

\* C13: FindMemoryType returns the lowest qualifying index, and UINT32_MAX
\* when no index qualifies.
C13_LowestQualifyingType ==
    call[1] = "FindMemoryType" =>
        LET Q == QualifyingTypes(call[2], call[3], call[4])
            index == ret[2]
        IN  IF Q = {} THEN index = UINT32_MAX
            ELSE /\ index[1] = 0
                 /\ index[2] \in Q
                 /\ \A i \in Q : index[2] <= i

\* C13 witness: a table of 32 types in which only the last one qualifies,
\* found behind types that were skipped for their flags and for their bit
C13_Witness ==
    /\ call[1] = "FindMemoryType"
    /\ Len(call[4]) = VK_MAX_MEMORY_TYPES
    /\ ret[2] = U32(VK_MAX_MEMORY_TYPES - 1)
    /\ 0 \in call[2]
    /\ (VK_MAX_MEMORY_TYPES - 2) \in call[2]

\* C14 (as claimed): when FindMemoryType finds no type, the create call makes
\* no allocation, destroys the image or buffer it created and returns NULL.
C14_NotFoundAbortsCreate ==
    (/\ call[1] = "CreateResource"
     /\ call[6] # "create"
     /\ QualifyingTypes(call[4], RequiredFlags(call[2], call[3]), call[5]) = {}) =>
        /\ ret[2] = "NULL"
        /\ \A n \in 1 .. Len(ops) : ops[n][1] # "allocate"
        /\ \E n \in 1 .. Len(ops) : ops[n] = OpDestroy(NativeObject(call[2]), 0)

\* C15 (as claimed): the extent passed to the swapchain lies between the
\* minimum and the maximum extent of the surface, component-wise, and is
\* never (0, 0).
C15_ExtentBounds ==
    call[1] = "CreateSwapchain" =>
        LET e == ret[3].imageExtent
            caps == call[4]
        IN  /\ \A d \in {1, 2} : /\ U32LessEq(caps.minImageExtent[d], e[d])
                                 /\ U32LessEq(e[d], caps.maxImageExtent[d])
            /\ e # Extent(0, 0)

U32Min(a, b) == IF U32Less(a, b) THEN a ELSE b
U32Max(a, b) == IF U32Less(a, b) THEN b ELSE a

\* C16: with an undefined current extent (width UINT32_MAX) the extent is
\* the requested size clamped into [min, max] component-wise; otherwise it
\* is the current extent, whatever size was requested.
C16_ExtentPolicy ==
    call[1] = "CreateSwapchain" =>
        LET e == ret[3].imageExtent
            size == call[3]
            caps == call[4]
        IN  IF caps.currentExtent[1] = UINT32_MAX
            THEN \A d \in {1, 2} :
                    e[d] = U32Max(caps.minImageExtent[d],
                                  U32Min(size[d], caps.maxImageExtent[d]))
            ELSE e = caps.currentExtent

\* C16 witness: a request clamped up in one component and down in the other
C16_Witness ==
    /\ call[1] = "CreateSwapchain"
    /\ call[4].currentExtent[1] = UINT32_MAX
    /\ call[3] = Extent(1, 5)
    /\ ret[3].imageExtent = Extent(2, 4)

\* C17 (as claimed): the requested image count is at least minImageCount
\* and, when maxImageCount is not 0, at most maxImageCount.
C17_ImageCountInRange ==
    call[1] = "CreateSwapchain" =>
        LET n == ret[3].minImageCount
            caps == call[4]
        IN  /\ U32LessEq(caps.minImageCount, n)
            /\ caps.maxImageCount # U32(0) => U32LessEq(n, caps.maxImageCount)

\* C18 (as claimed): the canonical pair is chosen when the list has it,
\* else the first entry of a non-empty list.
C18_FormatSelection ==
    call[1] = "CreateSwapchain" =>
        LET chosen == <<ret[3].imageFormat, ret[3].imageColorSpace>>
            formats == call[5]
        IN  IF \E n \in 1 .. Len(formats) : formats[n] = CanonicalFormat
            THEN chosen = CanonicalFormat
            ELSE formats # <<>> => chosen = formats[1]

\* C19: MAILBOX is chosen when the reported modes contain it, FIFO
\* otherwise; the choice depends on the set of the modes only.
C19_PresentModeSelection ==
    call[1] = "CreateSwapchain" =>
        LET modes == call[6]
        IN  ret[3].presentMode =
               IF VK_PRESENT_MODE_MAILBOX_KHR \in {modes[n] : n \in 1 .. Len(modes)}
               THEN VK_PRESENT_MODE_MAILBOX_KHR
               ELSE VK_PRESENT_MODE_FIFO_KHR

\* C19 witness: MAILBOX reported after another mode, and chosen
C19_Witness ==
    /\ call[1] = "CreateSwapchain"
    /\ Len(call[6]) = 2
    /\ call[6][1] = VK_PRESENT_MODE_IMMEDIATE_KHR
    /\ call[6][2] = VK_PRESENT_MODE_MAILBOX_KHR
    /\ ret[3].presentMode = VK_PRESENT_MODE_MAILBOX_KHR

\* the positions of a native call in the calls of the run
Positions(op) == {n \in 1 .. Len(ops) : ops[n] = op}

\* C20: the disposal of a buffer waits for the device first; a mapped buffer
\* is unmapped once, after the wait and before its handle is destroyed and
\* its memory freed; a buffer that is not mapped is not unmapped.
C20_DynamicDisposalOrder ==
    (call[1] = "DisposeBuffer" /\ ~call[3]) =>
        /\ Positions(OpWaitIdle) = {1}
        /\ Positions(OpDestroy("memory", 0)) # {}
        /\ Positions(OpDestroy("buffer", 0)) # {}
        /\ IF call[5]
           THEN /\ Cardinality(Positions(OpUnmap)) = 1
                /\ \A u \in Positions(OpUnmap) :
                      /\ u > 1
                      /\ \A f \in Positions(OpDestroy("memory", 0))
                                  \cup Positions(OpDestroy("buffer", 0)) : u < f
           ELSE Positions(OpUnmap) = {}

\* C20 witness: a mapped dynamic buffer disposed through the index-buffer
\* entry point: wait, unmap, destroy, free
C20_Witness ==
    /\ call[1] = "DisposeBuffer"
    /\ call[2] = "AddDisposeIndexBuffer"
    /\ call[4] /\ call[5]
    /\ Positions(OpUnmap) = {2}
    /\ Positions(OpDestroy("memory", 0)) = {4}

\* C21: AddDisposeTexture, AddDisposeVertexBuffer and AddDisposeIndexBuffer
\* called with a null resource make no native call, return nothing and
\* leave the renderer, its frame slots and its tracking lists as they were.
C21_NullDisposeNoOp ==
    [][(call'[1] \in {"DisposeTexture", "DisposeBuffer"} /\ call'[3] /\ call = NoCall) =>
          /\ ops' = <<>>
          /\ Len(ret') = 1
          /\ UNCHANGED driverVars]_vars

\* C21 witness: AddDisposeTexture was called with a null texture
C21_Witness ==
    /\ call = <<"DisposeTexture", "AddDisposeTexture", TRUE>>
    /\ ops = <<>>

\* the native objects a create call has made and not released
Unreleased ==
    {n \in 1 .. Len(ops) :
        /\ \/ IsCreate(ops[n])
           \/ (ops[n][1] = "allocate" /\ call[6] # "allocate")
        /\ ~\E d \in (n + 1) .. Len(ops) :
              /\ IsDestroy(ops[d])
              /\ ops[d][2] = (IF ops[n][1] = "allocate" THEN "memory" ELSE ops[n][2])}

\* C22: a create call in which a native step fails returns NULL, has
\* released every object it made and has not linked the resource.
C22_CreateFailureReleases ==
    (call[1] = "CreateResource" /\ call[6] # "none") =>
        /\ ret[2] = "NULL"
        /\ Unreleased = {}
        /\ ~\E n \in 1 .. Len(ops) : ops[n][1] = "link"

\* C23 (as claimed): the current slot index is a slot of the ring and equals
\* the frame counter modulo the ring size.
C23_CurrentSlotFollowsCounter ==
    /\ currentFrame \in Slots
    /\ currentFrame = frameCount % VULKAN_MAX_FRAMES_IN_FLIGHT

\* C24 (as claimed): the submitted flag of a slot is set exactly while a
\* submission on the slot keeps its fence unsignaled, and clear exactly when
\* the fence is signaled.
C24_SubmittedMirrorsFence ==
    DeviceLive =>
        \A i \in Slots :
            /\ frames[i].submitted = (~frames[i].fence /\ Submitted(i))
            /\ (~frames[i].submitted) = frames[i].fence

\* C25 (as claimed): whenever a setter or Clear records a command, the
\* command buffer it records into is the one of the current slot and that
\* slot is Recording.
C25_RecordingContextValid ==
    [][\A t \in Slots :
          (t \in recorded' /\ t \notin recorded) => (t = currentFrame /\ Recording(t))]_vars

\* positions of the native calls that destroy something of the chain held
\* before the call (the new chain and its views have index 0)
OldViewDestroys == {n \in 1 .. Len(ops) : ops[n] = OpDestroy("oldImageViews", 0)}
OldChainDestroys == {n \in 1 .. Len(ops) : ops[n] = OpDestroy("oldSwapchain", 0)}

\* C26 (as claimed): a creation passes the chain the renderer holds as the
\* old-swapchain hint, and a successful recreation destroys the views of the
\* outgoing chain and then the chain, after the new chain was created.
C26_HintAndDestroyOrder ==
    call[1] = "CreateSwapchain" =>
        /\ ret[3].oldSwapchain = call[7]
        /\ (call[7] # VK_NULL_HANDLE /\ ret[2] = 1) =>
              \E v \in OldViewDestroys, c \in OldChainDestroys :
                 /\ v < c
                 /\ \E n \in Positions(OpCreate("swapchain", 0)) : n < v

BeginFrameStep == pc = "beginWait" /\ pc' = "idle"

\* a step that replaces the swapchain the renderer holds by a new one
Recreation == swapchain # VK_NULL_HANDLE /\ swapchain' # swapchain

C29_ListsHoldNoFreedResource ==
    /\ \A n \in 1 .. Len(textureList) : resources[textureList[n]] # "released"
    /\ \A n \in 1 .. Len(bufferList) : resources[bufferList[n]] # "released"

\* C30 (as claimed): once DestroyDevice has returned, no texture or buffer
\* created through the device is still live.
C30_BulkTeardown ==
    pc = "destroyed" => \A r \in Resources : resources[r] # "live"

\* C31 (as claimed): at every queue submission the slot's fence is unsignaled
\* and no earlier submission on the slot is still pending, the first
\* submission after CreateDevice included.
C31_FenceResetAtSubmit ==
    [][EndFrameStep =>
          (~frames[currentFrame].fence /\ pendingWork[currentFrame] = 0)]_vars

\* C32 (as claimed): at every present the presented image index was returned
\* by a successful acquire on the swapchain passed to the present and has not
\* been presented since.
C32_PresentedImageAcquired ==
    [][EndFrameStep => currentImageIndex \in acquired]_vars

\* C33 (as claimed): under GPU fairness every queue submission made by
\* end-frame eventually completes and signals its fence, so every fence wait
\* of begin-frame eventually returns.
C33_EverySubmissionCompletes ==
    /\ \A i \in Slots : (pendingWork[i] > 0) ~> (pendingWork[i] = 0)
    /\ (pc = "beginWait") ~> (pc = "idle")

\* slot i is as VULKAN_CreateFrameResources left it: no fence wait (which
\* resets the fence) and no submission has happened on it
Untouched(i) ==
    /\ frames[i].fence
    /\ ~frames[i].imageAvailable
    /\ frames[i].commandBuffer = "initial"
    /\ pendingWork[i] = 0

\* C34 (as claimed): CreateDevice leaves every slot fence signaled and the
\* current slot index 0, and the first fence wait on each slot comes before
\* any submission on that slot, so that it returns on the creation signal.
C34_InitialSlotsIdle ==
    [][/\ (pc = "none" /\ pc' = "idle") =>
              ((\A i \in Slots : Untouched(i)') /\ currentFrame' = 0)
       /\ EndFrameStep => \A i \in Slots : i = currentFrame => ~Untouched(i)]_vars

\* C35 (as claimed): every texture and buffer a create call has returned is
\* reachable from textureList or bufferList until it is disposed.
C35_CreatedResourceTracked ==
    \A r \in Resources :
        resources[r] = "live" =>
            \/ \E n \in 1 .. Len(textureList) : textureList[n] = r
            \/ \E n \in 1 .. Len(bufferList) : bufferList[n] = r

\* C36 (as claimed): on every failure path of CreateDevice the cleanup calls
\* vkDestroyDevice, vkDestroySurfaceKHR and vkDestroyInstance only through
\* function pointers that were loaded.
C36_CleanupCallsLoaded ==
    (call[1] = "CreateDevice" /\ call[2] # "none") =>
        \A n \in 1 .. Len(ops) : ops[n][1] # "callNull"

\* C37 (as claimed): CreateDevice returns a device only if a graphics-capable
\* queue family and a family that can present to the surface were both
\* found; with no presenting family it fails, and no logical device or
\* present queue is created with the family index UINT32_MAX.
C37_QueueFamiliesFound ==
    call[1] = "QueueFamilies" =>
        LET families == call[2]
            hasGraphics == \E n \in 1 .. Len(families) : families[n].graphics
            hasPresent == \E n \in 1 .. Len(families) : families[n].present
        IN  /\ ret[2] = "device" => (hasGraphics /\ hasPresent)
            /\ ~hasPresent =>
                  /\ ret[2] = "NULL"
                  /\ \A n \in 1 .. Len(ret[3]) : ret[3][n] # UINT32_MAX
                  /\ \A n \in 1 .. Len(ret[4]) : ret[4][n] # UINT32_MAX

\* C38: end-frame leaves renderPassActive 0; a render pass that is active on
\* entry is ended by the first native call, so that no render pass is open
\* in the command buffer when it is ended and when it is submitted.  The
\* render pass is open in the command buffer the renderer records into.
C38_NoRenderPassSpansSubmit ==
    call[1] = "EndFrame" =>
        /\ ret[2] = FALSE
        /\ call[2] => ops[1][1] = "endRenderPass"
        /\ \A n \in 1 .. Len(ops) :
              (ops[n][1] \in {"endCommandBuffer", "submit"} /\ call[2] /\ call[3] = ops[n][3])
                 => \E m \in 1 .. (n - 1) : ops[m] = OpEndRenderPass(ops[n][3])

\* C38 witness: end-frame entered with a render pass active in the current
\* slot's command buffer has ended it, then ended and submitted the buffer
C38_Witness ==
    /\ call[1] = "EndFrame"
    /\ call[2]
    /\ call[3] = call[4]
    /\ ops[1] = OpEndRenderPass(call[4])
    /\ ops[2] = OpEndCommandBuffer(call[4])
    /\ ops[3] = OpSubmit(call[4])
    /\ ret[2] = FALSE

====
